---- MODULE Spec2Model ----
(***************************************************************************)
(* RayGenerator (nerfstudio/model_components/ray_generators.py).           *)
(*                                                                         *)
(* The generator holds references to a camera collection and a pose        *)
(* optimizer, a configured pixel offset and a non-persistent buffer        *)
(* image_coords.  forward(ray_indices, resample) gathers coordinates from  *)
(* the buffer, queries the pose optimizer, delegates to                    *)
(* cameras.generate_rays and, with resample, subtracts the pixel offset    *)
(* from the coordinates the cameras returned.                              *)
(*                                                                         *)
(* Coordinates and offsets are counted in half pixels: pixel k with a      *)
(* pixel offset of 0.5 is the number 2k + 1.                               *)
(*                                                                         *)
(* The return annotation of forward names Union, Tuple and Float, which    *)
(* the file does not import; what is modelled is the body of forward.      *)
(***************************************************************************)
EXTENDS Integers, Sequences, FiniteSets, TLC

VARIABLES self, frame, log, ctor, n_returned, n_pose_optimizer, n_generate_rays

vars == <<self, frame, log, ctor, n_returned, n_pose_optimizer, n_generate_rays>>

(***************************************************************************)
(* Bounds of the model.                                                    *)
(***************************************************************************)
ImageHeight == 2
ImageWidth == 3
NumCameras == 2
MaxRays == 2
MaxCalls == 2

\* pixel_offset: float = 0.5, in half pixels
DefaultPixelOffset == 1

\* the pixel offsets tried: 0.0, 0.5 and 1.0
Offsets == {0, DefaultPixelOffset, 2}

\* the perturbations cameras.generate_rays applies when it resamples
Jitters == {-1, 1}

\* an argument the caller leaves out
NoArg == [given |-> FALSE]

\* an argument the caller passes
Arg(value) == [given |-> TRUE, value |-> value]

(***************************************************************************)
(* Values.                                                                 *)
(***************************************************************************)
None == [type |-> "None"]

IndexError(dim, index) == [type |-> "IndexError", dim |-> dim, index |-> index]

PoseOptimizerError(index) == [type |-> "PoseOptimizerError", index |-> index]

CamerasError == [type |-> "CamerasError"]

Returned(value) == [raised |-> FALSE, value |-> value]

Raised(exc) == [raised |-> TRUE, exc |-> exc]

RayBundle(rays) == [type |-> "RayBundle", rays |-> rays]

Tuple(a, b) == [type |-> "tuple", items |-> <<a, b>>]

(***************************************************************************)
(* The collaborators, as the specification describes them.                 *)
(***************************************************************************)
\* Cameras.get_image_coords: the (x, y) sample location of every pixel
get_image_coords(pixel_offset) ==
    [r \in 0..(ImageHeight - 1) |->
        [c \in 0..(ImageWidth - 1) |-> <<2 * c + pixel_offset, 2 * r + pixel_offset>>]]

ValidCamera(cam) == cam \in 0..(NumCameras - 1)

\* the correction transform the optimizer holds for a camera (0 is the identity)
Correction(cam) == cam + 1

\* CameraOptimizer.__call__: a correction transform per camera id, or a failure
\* on a camera id it does not know
pose_optimizer(c) ==
    IF \E i \in 1..Len(c) : ~ValidCamera(c[i])
    THEN {Raised(PoseOptimizerError(
              c[CHOOSE i \in 1..Len(c) :
                  /\ ~ValidCamera(c[i])
                  /\ \A j \in 1..(i - 1) : ValidCamera(c[j])]))}
    ELSE {Returned([i \in 1..Len(c) |-> Correction(c[i])])}

\* one ray of a bundle, named by the parameters it was generated from
Ray(camera_indices, coords, camera_opt_to_camera) ==
    [camera_indices |-> camera_indices,
     coords |-> coords,
     camera_opt_to_camera |-> camera_opt_to_camera]

Rays(kwargs) ==
    RayBundle([i \in 1..Len(kwargs.coords) |->
                  Ray(kwargs.camera_indices[i], kwargs.coords[i],
                      kwargs.camera_opt_to_camera[i])])

Perturbed(coords, j) ==
    [i \in 1..Len(coords) |-> <<coords[i][1] + j, coords[i][2] - j>>]

\* Cameras.generate_rays: a ray bundle, with resample a pair of the bundle and
\* the perturbed coordinates, or a failure; a camera the collection does not
\* have is a failure
generate_rays(kwargs) ==
    IF \E i \in 1..Len(kwargs.camera_indices) : ~ValidCamera(kwargs.camera_indices[i][1])
    THEN {Raised(CamerasError)}
    ELSE {Raised(CamerasError)}
         \cup (IF kwargs.resample
               THEN {Returned(Tuple(Rays(kwargs), Perturbed(kwargs.coords, j))) : j \in Jitters}
               ELSE {Returned(Rays(kwargs))})

(***************************************************************************)
(* RayGenerator.__init__                                                   *)
(***************************************************************************)
\* pixel_offset: float = 0.5
init_pixel_offset(arg) == IF arg.given THEN arg.value ELSE DefaultPixelOffset

\* nn.Module.register_buffer(name, tensor, persistent)
register_buffer(module, tensor, persistent) ==
    [module EXCEPT !.image_coords = tensor,
                   !.state_dict = IF persistent THEN @ \cup {"image_coords"} ELSE @]

\* the cache built for the default offset, whatever offset is passed
RayGenerator_init_default_cache(cameras, pose_optimizer_ref, pixel_offset) ==
    register_buffer(
        [cameras |-> cameras,
         pixel_offset |-> pixel_offset,
         pose_optimizer |-> pose_optimizer_ref,
         image_coords |-> <<>>,
         state_dict |-> {}],
        get_image_coords(DefaultPixelOffset),
        FALSE)

RayGenerator_init(cameras, pose_optimizer_ref, pixel_offset) ==
    register_buffer(
        [cameras |-> cameras,
         pixel_offset |-> pixel_offset,
         pose_optimizer |-> pose_optimizer_ref,
         image_coords |-> <<>>,
         state_dict |-> {}],
        get_image_coords(pixel_offset),
        FALSE)

(***************************************************************************)
(* RayGenerator.forward                                                    *)
(***************************************************************************)
\* resampling by default
forward_resample_default_true(arg) == IF arg.given THEN arg.value ELSE TRUE

\* resample: bool = False
forward_resample(arg) == IF arg.given THEN arg.value ELSE FALSE

forward_entry(ray_indices, resample_arg) ==
    [pc |-> "L53",
     ray_indices |-> ray_indices,
     resample_arg |-> resample_arg,
     resample |-> forward_resample(resample_arg),
     c |-> <<>>, y |-> <<>>, x |-> <<>>,
     coords |-> <<>>,
     camera_opt_to_camera |-> <<>>,
     ray_bundle_and_coords |-> None,
     ret |-> None,
     exc |-> None]

\* the batch split in the wrong order: the last triple first
ColumnReversed(ray_indices, k) ==
    [i \in 1..Len(ray_indices) |-> ray_indices[Len(ray_indices) + 1 - i][k]]

\* ray_indices[:, k]
Column(ray_indices, k) == [i \in 1..Len(ray_indices) |-> ray_indices[i][k]]

\* an index of a tensor dimension of the given size: negative indices count
\* from the end
InRange(index, size) == -size <= index /\ index < size

Wrap(index, size) == IF index < 0 THEN index + size ELSE index

\* the first index of the batch that is out of range: rows are checked before
\* columns
BadIndex(y, x) ==
    IF \E i \in 1..Len(y) : ~InRange(y[i], ImageHeight)
    THEN IndexError(0, y[CHOOSE i \in 1..Len(y) :
                           /\ ~InRange(y[i], ImageHeight)
                           /\ \A j \in 1..(i - 1) : InRange(y[j], ImageHeight)])
    ELSE IndexError(1, x[CHOOSE i \in 1..Len(x) :
                           /\ ~InRange(x[i], ImageWidth)
                           /\ \A j \in 1..(i - 1) : InRange(x[j], ImageWidth)])

\* the cache indexed by column first
GatherTransposed(image_coords, y, x) ==
    IF \A i \in 1..Len(y) : InRange(x[i], ImageHeight) /\ InRange(y[i], ImageWidth)
    THEN Returned([i \in 1..Len(y) |->
                      image_coords[Wrap(x[i], ImageHeight)][Wrap(y[i], ImageWidth)]])
    ELSE Raised(BadIndex(x, y))

\* self.image_coords[y, x]
Gather(image_coords, y, x) ==
    IF \A i \in 1..Len(y) : InRange(y[i], ImageHeight) /\ InRange(x[i], ImageWidth)
    THEN Returned([i \in 1..Len(y) |->
                      image_coords[Wrap(y[i], ImageHeight)][Wrap(x[i], ImageWidth)]])
    ELSE Raised(BadIndex(y, x))

\* negative indices normalised in place, through the views of the batch
stmt_53_56_inplace(f, s) ==
    LET wrapped == [i \in 1..Len(f.ray_indices) |->
                       <<f.ray_indices[i][1],
                         IF InRange(f.ray_indices[i][2], ImageHeight)
                         THEN Wrap(f.ray_indices[i][2], ImageHeight) ELSE f.ray_indices[i][2],
                         IF InRange(f.ray_indices[i][3], ImageWidth)
                         THEN Wrap(f.ray_indices[i][3], ImageWidth) ELSE f.ray_indices[i][3]>>]
        c == Column(wrapped, 1)
        y == Column(wrapped, 2)
        x == Column(wrapped, 3)
        got == Gather(s.image_coords, y, x)
    IN  IF got.raised
        THEN [f EXCEPT !.pc = "raised", !.ray_indices = wrapped,
                       !.c = c, !.y = y, !.x = x, !.exc = got.exc]
        ELSE [f EXCEPT !.pc = "L58", !.ray_indices = wrapped,
                       !.c = c, !.y = y, !.x = x, !.coords = got.value]

\* lines 53-56
stmt_53_56(f, s) ==
    LET c == Column(f.ray_indices, 1)
        y == Column(f.ray_indices, 2)
        x == Column(f.ray_indices, 3)
        got == Gather(s.image_coords, y, x)
    IN  IF got.raised
        THEN [f EXCEPT !.pc = "raised", !.c = c, !.y = y, !.x = x, !.exc = got.exc]
        ELSE [f EXCEPT !.pc = "L58", !.c = c, !.y = y, !.x = x, !.coords = got.value]

\* a failure of the optimizer swallowed: the call goes on with identities
stmt_58_recovers(f, outcome) ==
    IF outcome.raised
    THEN [f EXCEPT !.pc = "L60", !.camera_opt_to_camera = [i \in 1..Len(f.c) |-> 0]]
    ELSE [f EXCEPT !.pc = "L60", !.camera_opt_to_camera = outcome.value]

\* line 58
stmt_58(f, outcome) ==
    IF outcome.raised
    THEN [f EXCEPT !.pc = "raised", !.exc = outcome.exc]
    ELSE [f EXCEPT !.pc = "L60", !.camera_opt_to_camera = outcome.value]

\* c.unsqueeze(-1)
unsqueeze(c) == [i \in 1..Len(c) |-> <<c[i]>>]

\* the transforms of the optimizer not passed on: identities instead
generate_rays_kwargs_no_opt(f) ==
    [camera_indices |-> unsqueeze(f.c),
     coords |-> f.coords,
     camera_opt_to_camera |-> [i \in 1..Len(f.c) |-> 0],
     resample |-> f.resample]

\* the keyword arguments of lines 60-65
generate_rays_kwargs(f) ==
    [camera_indices |-> unsqueeze(f.c),
     coords |-> f.coords,
     camera_opt_to_camera |-> f.camera_opt_to_camera,
     resample |-> f.resample]

\* a failure of generate_rays caught and raised again as an error of the
\* generator's own
stmt_60_65_wraps(f, outcome) ==
    IF outcome.raised
    THEN [f EXCEPT !.pc = "raised", !.exc = [type |-> "RuntimeError", cause |-> outcome.exc]]
    ELSE [f EXCEPT !.pc = "L66", !.ray_bundle_and_coords = outcome.value]

\* lines 60-65
stmt_60_65(f, outcome) ==
    IF outcome.raised
    THEN [f EXCEPT !.pc = "raised", !.exc = outcome.exc]
    ELSE [f EXCEPT !.pc = "L66", !.ray_bundle_and_coords = outcome.value]

\* the offset added instead
SubtractAdds(new_coords, pixel_offset) ==
    [i \in 1..Len(new_coords) |->
        <<new_coords[i][1] + pixel_offset, new_coords[i][2] + pixel_offset>>]

\* new_coords - self.pixel_offset
Subtract(new_coords, pixel_offset) ==
    [i \in 1..Len(new_coords) |->
        <<new_coords[i][1] - pixel_offset, new_coords[i][2] - pixel_offset>>]

\* lines 66-70
stmt_66_70(f, s) ==
    IF f.resample
    THEN [f EXCEPT !.pc = "returned",
                   !.ret = Tuple(f.ray_bundle_and_coords.items[1],
                                 Subtract(f.ray_bundle_and_coords.items[2], s.pixel_offset))]
    ELSE [f EXCEPT !.pc = "returned", !.ret = f.ray_bundle_and_coords]

(***************************************************************************)
(* The inputs.                                                             *)
(***************************************************************************)
\* index triples (camera_id, row, col): in range, negative, and out of range
\* on either side of either axis, and a camera the collection does not have
Triples ==
    { <<0, 0, 0>>,
      <<1, 0, ImageWidth - 1>>,
      <<0, ImageHeight - 1, 0>>,
      <<1, ImageHeight - 1, ImageWidth - 1>>,
      <<0, -1, -ImageWidth>>,
      <<1, -ImageHeight, -1>>,
      <<0, ImageHeight, 0>>,
      <<1, 0, ImageWidth>>,
      <<0, -(ImageHeight + 1), 0>>,
      <<1, 0, -(ImageWidth + 1)>>,
      <<NumCameras, 0, 0>> }

Batches == UNION {[1..n -> Triples] : n \in 0..MaxRays}

\* no call of forward is running
Idle == [forward_entry(<<>>, NoArg) EXCEPT !.pc = "idle"]

InCall == frame.pc \in {"L53", "L58", "L60", "L66"}

CallEvent(callee, args, outcome) == [callee |-> callee, args |-> args, outcome |-> outcome]

Count(callee) == Cardinality({k \in 1..Len(log) : log[k].callee = callee})

(***************************************************************************)
(* The state machine.                                                      *)
(***************************************************************************)
Init ==
    /\ \E arg \in {Arg(o) : o \in Offsets} \cup {NoArg} :
          /\ self = RayGenerator_init("cameras", "pose_optimizer", init_pixel_offset(arg))
          /\ ctor = [pixel_offset_arg |-> arg, get_image_coords |-> 1, assigned |-> FALSE]
    /\ frame = Idle
    /\ log = <<>>
    /\ n_returned = 0
    /\ n_pose_optimizer = 0
    /\ n_generate_rays = 0

\* generator(ray_indices, resample)
Call ==
    /\ frame.pc = "idle"
    /\ n_returned < MaxCalls
    /\ \E ray_indices \in Batches, resample_arg \in {NoArg, Arg(FALSE), Arg(TRUE)} :
          frame' = forward_entry(ray_indices, resample_arg)
    /\ UNCHANGED <<self, log, ctor, n_returned, n_pose_optimizer, n_generate_rays>>

Line53_56 ==
    /\ frame.pc = "L53"
    /\ frame' = stmt_53_56(frame, self)
    /\ UNCHANGED <<self, log, ctor, n_returned, n_pose_optimizer, n_generate_rays>>

Line58 ==
    /\ frame.pc = "L58"
    /\ \E outcome \in pose_optimizer(frame.c) :
          /\ frame' = stmt_58(frame, outcome)
          /\ log' = Append(log, CallEvent("pose_optimizer", frame.c, outcome))
    /\ UNCHANGED <<self, ctor, n_returned, n_pose_optimizer, n_generate_rays>>

Line60_65 ==
    /\ frame.pc = "L60"
    /\ \E outcome \in generate_rays(generate_rays_kwargs(frame)) :
          /\ frame' = stmt_60_65(frame, outcome)
          /\ log' = Append(log, CallEvent("generate_rays", generate_rays_kwargs(frame), outcome))
    /\ UNCHANGED <<self, ctor, n_returned, n_pose_optimizer, n_generate_rays>>

Line66_70 ==
    /\ frame.pc = "L66"
    /\ frame' = stmt_66_70(frame, self)
    /\ n_returned' = n_returned + 1
    /\ n_pose_optimizer' = n_pose_optimizer + Count("pose_optimizer")
    /\ n_generate_rays' = n_generate_rays + Count("generate_rays")
    /\ UNCHANGED <<self, log, ctor>>

\* the caller takes the value returned, or the exception raised, and the frame
\* of the call is gone
Resume ==
    /\ frame.pc \in {"returned", "raised"}
    /\ frame' = Idle
    /\ log' = <<>>
    /\ UNCHANGED <<self, ctor, n_returned, n_pose_optimizer, n_generate_rays>>

\* generator.pixel_offset = o
SetPixelOffset ==
    /\ frame.pc = "idle"
    /\ \E o \in Offsets \ {self.pixel_offset} :
          self' = [self EXCEPT !.pixel_offset = o]
    /\ ctor' = [ctor EXCEPT !.assigned = TRUE]
    /\ UNCHANGED <<frame, log, n_returned, n_pose_optimizer, n_generate_rays>>

Next ==
    \/ Call
    \/ Line53_56
    \/ Line58
    \/ Line60_65
    \/ Line66_70
    \/ Resume
    \/ SetPixelOffset

Spec == Init /\ [][Next]_vars

(***************************************************************************)
(* The properties.                                                         *)
(***************************************************************************)
Rows == 0..(ImageHeight - 1)

Cols == 0..(ImageWidth - 1)

ValidPixel(t) == t[2] \in Rows /\ t[3] \in Cols

ValidTriple(t) == ValidCamera(t[1]) /\ ValidPixel(t)

N == Len(frame.ray_indices)

\* the flag the caller asked for
CallerResample == frame.resample_arg.given /\ frame.resample_arg.value

\* the events of the running call, by callee
Events(callee) == {k \in 1..Len(log) : log[k].callee = callee}

\* what cameras.generate_rays returned to the running call
Delegated == log[Len(log)].outcome.value

HasDelegated ==
    /\ Len(log) > 0
    /\ log[Len(log)].callee = "generate_rays"
    /\ ~log[Len(log)].outcome.raised

\* C1: a call on N valid index triples returns a bundle of exactly N rays, and
\* ray i is the ray of camera c[i] at the coordinate pair the cache holds for
\* (row[i], col[i]), in the order of the input, with and without resample.
C1_BundleAlignedWithInput ==
    (frame.pc = "returned" /\ \A i \in 1..N : ValidTriple(frame.ray_indices[i])) =>
        LET bundle == IF frame.ret.type = "tuple" THEN frame.ret.items[1] ELSE frame.ret
        IN  /\ bundle.type = "RayBundle"
            /\ Len(bundle.rays) = N
            /\ \A i \in 1..N :
                  LET t == frame.ray_indices[i]
                  IN  /\ bundle.rays[i].camera_indices = <<t[1]>>
                      /\ bundle.rays[i].coords = self.image_coords[t[2]][t[3]]

C1_Witness ==
    /\ frame.pc = "returned"
    /\ CallerResample
    /\ N = 2
    /\ \A i \in 1..N : ValidTriple(frame.ray_indices[i])
    /\ frame.ray_indices[1][1] # frame.ray_indices[2][1]
    /\ frame.ray_indices[1][2] # frame.ray_indices[2][2]

\* C2: once the coordinates of a batch are gathered, the pair of every triple
\* whose row and column are in the image is the cache entry
\* image_coords[row][col], whatever its camera id is, and that pair is the one
\* handed to cameras.generate_rays.
C2_GatheredFromCache ==
    \A i \in 1..N :
        LET t == frame.ray_indices[i]
        IN  ValidPixel(t) =>
                /\ Len(frame.coords) = N => frame.coords[i] = self.image_coords[t[2]][t[3]]
                /\ \A k \in Events("generate_rays") :
                      log[k].args.coords[i] = self.image_coords[t[2]][t[3]]

C2_Witness ==
    /\ Events("generate_rays") # {}
    /\ \E i \in 1..N :
          /\ ValidPixel(frame.ray_indices[i])
          /\ frame.ray_indices[i][2] # frame.ray_indices[i][3]
          /\ frame.ray_indices[i][1] # 0

\* C3: with resample the call returns a pair: the bundle the cameras returned,
\* as it is, and the coordinates the cameras returned with the configured pixel
\* offset subtracted from every component.
C3_ResampleSubtractsOffset ==
    (frame.pc = "returned" /\ CallerResample) =>
        /\ HasDelegated
        /\ Delegated.type = "tuple"
        /\ frame.ret.type = "tuple"
        /\ frame.ret.items[1] = Delegated.items[1]
        /\ Len(frame.ret.items[2]) = Len(Delegated.items[2])
        /\ \A i \in 1..Len(Delegated.items[2]) : \A k \in 1..2 :
              frame.ret.items[2][i][k] = Delegated.items[2][i][k] - self.pixel_offset

C3_Witness ==
    /\ frame.pc = "returned"
    /\ CallerResample
    /\ N = 2
    /\ self.pixel_offset = 2
    /\ frame.ret.type = "tuple"

\* C4: without resample, asked for or left out, the call returns one value,
\* the very value cameras.generate_rays returned: no pair, nothing subtracted.
C4_PlainReturnsDelegated ==
    (frame.pc = "returned" /\ ~CallerResample) =>
        /\ HasDelegated
        /\ frame.ret = Delegated
        /\ frame.ret.type = "RayBundle"

C4_Witness ==
    /\ frame.pc = "returned"
    /\ ~frame.resample_arg.given
    /\ N = 2
    /\ self.pixel_offset # 0

\* C5: in every state the cache is the coordinate table of the pixel offset
\* the generator is configured with now.
C5_CacheMatchesConfiguredOffset ==
    self.image_coords = get_image_coords(self.pixel_offset)

\* a step of a call of forward, its entry included
ForwardStep == InCall \/ (frame.pc = "idle" /\ frame'.pc = "L53")

\* C6: no step of a call, returning or raising, with or without resample,
\* changes the generator (cache, pixel offset, references to the cameras and
\* the pose optimizer) or the batch of indices it was given.
C6_ForwardLeavesStateAlone ==
    [][ForwardStep =>
          /\ self' = self
          /\ InCall => frame'.ray_indices = frame.ray_indices]_vars

C6_Witness ==
    /\ frame.pc = "raised"
    /\ frame.resample
    /\ frame.exc.type = "IndexError"
    /\ N = 2
    /\ \E i \in 1..N : frame.ray_indices[i][2] < 0

\* the failure of the lookup of the running call, if it fails
LookupFails ==
    \E i \in 1..N : \/ ~InRange(frame.ray_indices[i][2], ImageHeight)
                    \/ ~InRange(frame.ray_indices[i][3], ImageWidth)

\* C7 as claimed: no bundle is ever returned for a batch with a row or a
\* column outside the image, a negative one included.
C7_NoBundleForOutOfRange ==
    frame.pc = "returned" => \A i \in 1..N : ValidPixel(frame.ray_indices[i])

\* C7: a row or column outside [-extent, extent) makes the lookup fail, and
\* that failure, like a failure of the pose optimizer or of generate_rays,
\* reaches the caller as it was raised: of no kind of the generator's own and
\* with no second attempt. A negative index down to -extent does not fail.
C7_FailuresRelayed ==
    /\ (frame.pc \notin {"idle", "L53"} /\ LookupFails) =>
          /\ frame.pc = "raised"
          /\ frame.exc.type = "IndexError"
          /\ frame.exc = BadIndex(Column(frame.ray_indices, 2), Column(frame.ray_indices, 3))
          /\ frame.exc.index \in {frame.ray_indices[i][2 + frame.exc.dim] : i \in 1..N}
    /\ frame.pc = "returned" => ~LookupFails
    /\ \A k \in 1..Len(log) :
          log[k].outcome.raised =>
              /\ k = Len(log)
              /\ frame.pc = "raised"
              /\ frame.exc = log[k].outcome.exc
    /\ frame.pc = "raised" =>
          \/ LookupFails
          \/ Len(log) > 0 /\ log[Len(log)].outcome.raised
    /\ Cardinality(Events("pose_optimizer")) <= 1
    /\ Cardinality(Events("generate_rays")) <= 1

C7_Witness ==
    /\ frame.pc = "raised"
    /\ frame.exc.type = "IndexError"
    /\ frame.exc.index < 0
    /\ \E i \in 1..N : frame.ray_indices[i][2] = -1

\* the offset the generator was constructed with
ConstructedOffset ==
    IF ctor.pixel_offset_arg.given THEN ctor.pixel_offset_arg.value ELSE DefaultPixelOffset

\* C8: construction with offset o, 0.5 if none is given, stores o and sets the
\* cache to get_image_coords(o), computed once; a generator built on the same
\* cameras with another offset has a cache that differs by the difference of
\* the offsets in every entry; the cache is no part of the state dict.
C8_Construction ==
    /\ ~ctor.assigned => self.pixel_offset = ConstructedOffset
    /\ self.image_coords = get_image_coords(ConstructedOffset)
    /\ ctor.get_image_coords = 1
    /\ \A o \in Offsets :
          RayGenerator_init(self.cameras, self.pose_optimizer, o).image_coords =
              [r \in Rows |-> [c \in Cols |->
                  <<self.image_coords[r][c][1] + (o - ConstructedOffset),
                    self.image_coords[r][c][2] + (o - ConstructedOffset)>>]]
    /\ "image_coords" \notin self.state_dict
    /\ self.cameras = "cameras"
    /\ self.pose_optimizer = "pose_optimizer"

C8_Witness ==
    /\ ctor.pixel_offset_arg = Arg(0)
    /\ ~ctor.assigned
    /\ self.pixel_offset = 0
    /\ frame.pc = "returned"

\* C9: a call that returns has queried the pose optimizer once, with all the
\* camera ids of the batch in order, and then called generate_rays once, with
\* those ids, the gathered coordinates, the transforms the optimizer has just
\* returned and the caller's resample flag; k calls that return have made k
\* queries and k calls of generate_rays.
C9_OneQueryOneDelegation ==
    /\ n_pose_optimizer = n_returned
    /\ n_generate_rays = n_returned
    /\ frame.pc = "returned" =>
          /\ Len(log) = 2
          /\ log[1].callee = "pose_optimizer"
          /\ log[1].args = [i \in 1..N |-> frame.ray_indices[i][1]]
          /\ ~log[1].outcome.raised
          /\ log[2].callee = "generate_rays"
          /\ log[2].args.camera_indices = [i \in 1..N |-> <<frame.ray_indices[i][1]>>]
          /\ log[2].args.coords =
                [i \in 1..N |->
                    self.image_coords[Wrap(frame.ray_indices[i][2], ImageHeight)]
                                     [Wrap(frame.ray_indices[i][3], ImageWidth)]]
          /\ log[2].args.camera_opt_to_camera = log[1].outcome.value
          /\ log[2].args.resample = CallerResample

C9_Witness ==
    /\ frame.pc = "returned"
    /\ n_returned = 2
    /\ N = 2
    /\ frame.ray_indices[1][1] = 1
    /\ frame.ray_indices[2][1] = 0

\* C10: in a call the lookup comes first, then the pose optimizer, then
\* generate_rays: a failed lookup leaves both collaborators uncalled, a failed
\* query leaves generate_rays uncalled, and the offset is subtracted only
\* after generate_rays has returned with resample.
C10_StepsInOrder ==
    /\ (frame.pc \notin {"idle", "L53"} /\ LookupFails) => log = <<>>
    /\ \A k \in Events("pose_optimizer") :
          /\ k = 1
          /\ ~LookupFails
          /\ Len(frame.coords) = N
          /\ log[k].outcome.raised => Len(log) = 1
    /\ \A k \in Events("generate_rays") :
          /\ k = 2
          /\ log[1].callee = "pose_optimizer"
          /\ ~log[1].outcome.raised
    /\ frame.ret.type = "tuple" =>
          /\ HasDelegated
          /\ log[Len(log)].args.resample

C10_Witness ==
    /\ frame.pc = "raised"
    /\ frame.exc.type = "PoseOptimizerError"
    /\ Len(log) = 1
    /\ N = 2
    /\ ValidCamera(frame.ray_indices[1][1])

====
